---- MODULE Spec2Model ----
(***************************************************************************)
(* A model of easygese/loader.py: the index loader (download_index,        *)
(* load_index), the dataset loader (download_data, load_species) and the   *)
(* trait accessors.  Files are modelled by their content, the remote by    *)
(* the outcome of each GET the code performs.                              *)
(***************************************************************************)
EXTENDS Naturals, Sequences, FiniteSets, TLC

VARIABLES
    cache,      \* DEFAULT_CACHE_DIR / "index.json"
    repoIndex,  \* <repo>/datasets/index.json, first well-known location
    homeIndex,  \* ~/.easygese/index.json, second well-known location
    userIndex,  \* the file a caller names with local_path
    dataFiles,  \* dataFiles[dir][f]: content of <dir>/lentil/<f>, or "absent"
    last,       \* the last call: its arguments, what it found, what it did
    prev,       \* what the call before `last` was, for consecutive calls
    zobj,       \* the object handed to the trait accessors
    acc,        \* the result of the last accessor call
    benchFiles, \* benchFiles[dir][f]: content of the benchmark file f of dir
    pkgFiles,   \* pkgFiles[f]: content of <package>/data/<f>
    bench       \* the last benchmark call: its arguments and what it did

vars == <<cache, repoIndex, homeIndex, userIndex, dataFiles, last, prev, zobj, acc,
         benchFiles, pkgFiles, bench>>

loaderVars == <<cache, repoIndex, homeIndex, userIndex, dataFiles, last, prev>>
accVars == <<zobj, acc>>
benchVars == <<benchFiles, pkgFiles, bench>>

-----------------------------------------------------------------------------
(* Strings the code inspects character by character are character tuples. *)

lentil  == <<"l","e","n","t","i","l">>
LENTIL  == <<"L","E","N","T","I","L">>
Lentils == <<"L","e","n","t","i","l","s">>
lentils == <<"l","e","n","t","i","l","s">>
bean    == <<"b","e","a","n">>
potato  == <<"p","o","t","a","t","o">>
NoName  == <<>>

(* The species names the calls of the model are made with. *)
Names == {lentil, LENTIL, Lentils, bean, potato}

(* The species names download_data is called with; the model keeps the     *)
(* data directory of lentil only, every other species directory is empty.  *)
DownloadNames == {lentil, LENTIL, potato}

-----------------------------------------------------------------------------
(* Index documents.  A file or a response body is named by the document    *)
(* it holds; IndexOf gives the mapping json.load / response.json() parses  *)
(* out of it.  IdxA's entry carries a citation, IdxB's entries carry none  *)
(* (as the entries of MOCK_INDEX_DATA).                                    *)

IndexIds == {"IdxA", "IdxB"}

Urls(sp) ==
    IF sp = lentil
    THEN [X |-> "url_lentil_x.csv", Y |-> "url_lentil_y.csv", Z |-> "url_lentil_z.json"]
    ELSE [X |-> "url_bean_x.csv", Y |-> "url_bean_y.csv", Z |-> "url_bean_z.json"]

(* A body fetched from a data URL, or the file it was saved to, is named   *)
(* by the URL.                                                             *)
Entry(sp, cite) ==
    IF cite THEN Urls(sp) @@ [citation |-> "cite"] ELSE Urls(sp)

IndexOf(id) ==
    IF id = "IdxA"
    THEN (lentil :> Entry(lentil, TRUE))
    ELSE (lentil :> Entry(lentil, FALSE)) @@ (bean :> Entry(bean, FALSE))

(* A file: absent, present but not parsable as JSON, or an index document. *)
FileStates == {"absent", "corrupt"} \cup IndexIds

(* json.load(f) succeeds *)
Parsable(f) == f \in IndexIds

(* The outcome of one GET of INDEX_URL: a transport failure or non-2xx     *)
(* status ("fail", a RequestException from get / raise_for_status), a 2xx  *)
(* response whose body is not JSON ("badjson"), or a 2xx response holding  *)
(* an index document.                                                      *)
Remote == {"fail", "badjson"} \cup IndexIds

-----------------------------------------------------------------------------
(* download_index(force).  r is the outcome of the GET, if one is made;    *)
(* reqExc says whether response.json() raises a RequestException (requests *)
(* >= 2.27) or a plain ValueError (older releases): setup.py pins neither. *)
(* open(cache_file, "w") truncates the file before response.json() is      *)
(* evaluated, so a body that is not JSON leaves an empty cache file.       *)
(* ret: "path" (the cache path is returned) or "raise".                    *)

(* download_index without lines 51-52: the response is never saved *)
DownloadIndexNoSave(c, force, r, reqExc) ==
    IF c # "absent" /\ ~force
    THEN [ret |-> "path", cache |-> c, net |-> <<>>, err |-> "-"]
    ELSE IF r = "fail" /\ c = "absent"
    THEN [ret |-> "raise", cache |-> c, net |-> <<r>>, err |-> "RequestException"]
    ELSE [ret |-> "path", cache |-> c, net |-> <<r>>, err |-> "-"]

(* download_index that never overwrites an existing cache file *)
DownloadIndexKeepOld(c, force, r, reqExc) ==
    IF c # "absent" /\ ~force
    THEN [ret |-> "path", cache |-> c, net |-> <<>>, err |-> "-"]
    ELSE IF r = "fail" /\ c = "absent"
    THEN [ret |-> "raise", cache |-> c, net |-> <<r>>, err |-> "RequestException"]
    ELSE IF c # "absent"
    THEN [ret |-> "path", cache |-> c, net |-> <<r>>, err |-> "-"]
    ELSE [ret |-> "path", cache |-> IF r \in IndexIds THEN r ELSE "corrupt",
          net |-> <<r>>, err |-> "-"]

DownloadIndex(c, force, r, reqExc) ==
    IF c # "absent" /\ ~force
    THEN [ret |-> "path", cache |-> c, net |-> <<>>, err |-> "-"]
    ELSE IF r \in IndexIds
    THEN [ret |-> "path", cache |-> r, net |-> <<r>>, err |-> "-"]
    ELSE IF r = "fail"
    THEN IF c # "absent"
         THEN [ret |-> "path", cache |-> c, net |-> <<r>>, err |-> "-"]
         ELSE [ret |-> "raise", cache |-> c, net |-> <<r>>, err |-> "RequestException"]
    ELSE IF reqExc
         THEN [ret |-> "path", cache |-> "corrupt", net |-> <<r>>, err |-> "-"]
         ELSE [ret |-> "raise", cache |-> "corrupt", net |-> <<r>>, err |-> "ValueError"]

-----------------------------------------------------------------------------
(* load_index(use_cache, force_refresh, local_fallback, local_path).       *)
(* A result: kind "ok" (val is the document returned, src where it came    *)
(* from), "error" (err the exception raised) or "none" (the function ran   *)
(* off its end and returned None); cache is the cache file afterwards and  *)
(* net the outcomes of the GETs made, in order.                            *)

IdxOk(id, src, c, net) ==
    [kind |-> "ok", val |-> id, src |-> src, err |-> "-", cache |-> c, net |-> net]

IdxErr(e, c, net) ==
    [kind |-> "error", val |-> "-", src |-> "-", err |-> e, cache |-> c, net |-> net]

IdxNone(c, net) ==
    [kind |-> "none", val |-> "-", src |-> "-", err |-> "-", cache |-> c, net |-> net]

(* with local_file.open("r") as f: return json.load(f) *)
ReadLocal(f, src, c, net) ==
    IF f = "absent" THEN IdxErr("FileNotFoundError", c, net)
    ELSE IF Parsable(f) THEN IdxOk(f, src, c, net)
    ELSE IdxErr("JSONDecodeError", c, net)

(* the fallback with local_path ignored *)
FallbackNoLocalPath(c, repo, home, user, fb, lp, net) ==
    IF ~fb THEN IdxNone(c, net)
    ELSE IF repo # "absent" THEN ReadLocal(repo, "repo", c, net)
    ELSE IF home # "absent" THEN ReadLocal(home, "home", c, net)
    ELSE IF c # "absent" THEN ReadLocal(c, "cache_again", c, net)
    ELSE IdxErr("FileNotFoundError", c, net)

(* lines 106-127: the local fallback; c is the cache file at that point *)
Fallback(c, repo, home, user, fb, lp, net) ==
    IF ~fb THEN IdxNone(c, net)
    ELSE IF lp THEN ReadLocal(user, "local_path", c, net)
    ELSE IF repo # "absent" THEN ReadLocal(repo, "repo", c, net)
    ELSE IF home # "absent" THEN ReadLocal(home, "home", c, net)
    ELSE IF c # "absent" THEN ReadLocal(c, "cache_again", c, net)
    ELSE IdxErr("FileNotFoundError", c, net)

(* lines 96-104: the direct GET when use_cache is off *)
RemoteStep(c, repo, home, user, use_cache, fb, lp, net, r, reqExc) ==
    IF ~use_cache
    THEN IF r \in IndexIds THEN IdxOk(r, "remote", c, net \o <<r>>)
         ELSE IF r = "badjson" /\ ~reqExc THEN IdxErr("ValueError", c, net \o <<r>>)
         ELSE IF ~fb THEN IdxErr("RuntimeError", c, net \o <<r>>)
         ELSE Fallback(c, repo, home, user, fb, lp, net \o <<r>>)
    ELSE Fallback(c, repo, home, user, fb, lp, net)

LoadIndex(c, repo, home, user, use_cache, force, fb, lp, r1, r2, reqExc) ==
    IF use_cache /\ ~force /\ c # "absent" /\ Parsable(c)
    THEN IdxOk(c, "cache", c, <<>>)
    ELSE IF force \/ c = "absent"
    THEN LET d == DownloadIndex(c, force, r1, reqExc)
         IN  IF d.ret = "path" /\ Parsable(d.cache)
             THEN IdxOk(d.cache, IF r1 \in IndexIds THEN "download" ELSE "stale",
                        d.cache, d.net)
             ELSE IF ~fb THEN IdxErr("RuntimeError", d.cache, d.net)
             ELSE RemoteStep(d.cache, repo, home, user, use_cache, fb, lp, d.net, r2, reqExc)
    ELSE RemoteStep(c, repo, home, user, use_cache, fb, lp, <<>>, r1, reqExc)

-----------------------------------------------------------------------------
(* The record of a call.                                                   *)

DataNames == {"X", "Y", "Z"}
Dirs == {"default", "user"}
NoXYZ == [X |-> "-", Y |-> "-", Z |-> "-", tagY |-> FALSE, tagZ |-> FALSE]

NoCall ==
    [op |-> "init", use_cache |-> TRUE, force |-> FALSE, fb |-> TRUE, lp |-> FALSE,
     species |-> NoName, use_local |-> TRUE, dir |-> "default",
     cacheBefore |-> "absent", localExist |-> FALSE,
     kind |-> "-", val |-> "-", src |-> "-", err |-> "-",
     msg |-> "-", listed |-> {}, net |-> <<>>, dnet |-> <<>>,
     index |-> "-", resolved |-> NoName, path |-> "-", xyz |-> NoXYZ]

NoPrev == [plain |-> FALSE, kind |-> "-", val |-> "-", err |-> "-", net |-> <<>>]

(* load_index() with every argument at its default *)
PlainLoadIndex(call) ==
    /\ call.op = "load_index"
    /\ call.use_cache /\ ~call.force /\ call.fb /\ ~call.lp

(* What is kept of a call once the next one is made: the result of a plain  *)
(* load_index(), nothing of any other call.                                *)
Summary(call) ==
    IF PlainLoadIndex(call)
    THEN [plain |-> TRUE, kind |-> call.kind, val |-> call.val,
          err |-> call.err, net |-> call.net]
    ELSE NoPrev

(* The outcomes a call's GETs of INDEX_URL are drawn from.  No GET is made  *)
(* when the cache file exists and neither force_refresh nor use_cache=False *)
(* asks for one, a second GET is made only with use_cache off after a      *)
(* download (lines 87-99), and only a body that is not JSON makes the      *)
(* release of requests matter; the inputs a call cannot read are not       *)
(* enumerated.                                                             *)
FirstGet(c, use_cache, force) ==
    IF force \/ c = "absent" \/ ~use_cache THEN Remote ELSE {"fail"}

SecondGet(c, use_cache, force) ==
    IF ~use_cache /\ (force \/ c = "absent") THEN Remote ELSE {"fail"}

JsonErrors(r1, r2) ==
    IF r1 = "badjson" \/ r2 = "badjson" THEN BOOLEAN ELSE {TRUE}

-----------------------------------------------------------------------------
(* The data files of a species and the GETs of its three URLs.  A GET of   *)
(* a data URL either fails (transport or status: raise_for_status raises   *)
(* an HTTPError) or answers with the body the URL names; the calls stop at *)
(* the first failure, so a call reads one of these outcome sequences.      *)

DataScripts ==
    {<<"fail">>, <<"ok", "fail">>, <<"ok", "ok", "fail">>, <<"ok", "ok", "ok">>}

(* The outcome sequences a call can read: none but the empty one when it  *)
(* ends before its first GET of a data URL.                                *)
AllExist(fl) == \A f \in {"X", "Y", "Z"} : fl[f] # "absent"

Known(ix, sp) == ix.kind = "ok" /\ sp \in DOMAIN IndexOf(ix.val)

LoadScripts(ix, sp, use_local, fl) ==
    IF /\ Known(ix, sp)
       /\ ~(use_local /\ AllExist(fl))
       /\ "citation" \in DOMAIN IndexOf(ix.val)[sp]
    THEN DataScripts ELSE {<<>>}

DownloadScripts(ix, sp) == IF Known(ix, sp) THEN DataScripts ELSE {<<>>}

NoFiles == [f \in DataNames |-> "absent"]

(* the files of <dir>/<species>/ *)
LocalFiles(files, dir, sp) == IF sp = lentil THEN files[dir] ELSE NoFiles

(* the GETs made before and including the first failure *)
Made(script, n) == SubSeq(script, 1, IF Len(script) < n THEN Len(script) ELSE n)

(* The result of a dataset call: index is the document its load_index()    *)
(* returned, resolved the key of the entry it used, path the branch taken, *)
(* msg and listed the text of a ValueError and the names it enumerates.    *)
SpRes(kind, err, msg, idx, path, exist, xyz, dnet) ==
    [kind |-> kind, err |-> err, msg |-> msg, listed |-> {}, index |-> idx,
     path |-> path, localExist |-> exist, xyz |-> xyz, dnet |-> dnet]


(* load_species that never looks at the local files *)
LoadSpeciesAlwaysRemote(ix, sp, use_local, fl, script) ==
    IF ix.kind # "ok"
    THEN SpRes("error", ix.err, "-", "-", "-", FALSE, NoXYZ, <<>>)
    ELSE IF sp \notin DOMAIN IndexOf(ix.val)
    THEN SpRes("error", "ValueError", "Species '{species}' not found in index.", ix.val,
               "-", FALSE, NoXYZ, <<>>)
    ELSE SpRes("error", "HTTPError", "-", ix.val, "remote", AllExist(fl), NoXYZ,
               <<"fail">>)

(* load_species that saves what it downloads, as download_data does *)
LoadSpeciesFilesPersist(ix, sp, use_local, fl, script) ==
    IF ~Known(ix, sp) \/ (use_local /\ AllExist(fl)) THEN fl
    ELSE [f \in {"X", "Y", "Z"} |->
             IF script = <<"ok", "ok", "ok">> THEN IndexOf(ix.val)[sp][f] ELSE fl[f]]

(* load_species(species, use_local, data_dir), after its load_index() has  *)
(* ended as ix; fl are the files of the species directory.                 *)
LoadSpecies(ix, sp, use_local, fl, script) ==
    IF ix.kind # "ok"
    THEN SpRes("error", ix.err, "-", "-", "-", FALSE, NoXYZ, <<>>)
    ELSE IF sp \notin DOMAIN IndexOf(ix.val)
    THEN SpRes("error", "ValueError", "Species '{species}' not found in index.", ix.val, "-",
               FALSE, NoXYZ, <<>>)
    ELSE LET entry == IndexOf(ix.val)[sp]
             exist == AllExist(fl)
         IN  IF use_local /\ exist
             THEN SpRes("ok", "-", "-", ix.val, "local", exist,
                        [X |-> fl["X"], Y |-> fl["Y"], Z |-> fl["Z"],
                         tagY |-> TRUE, tagZ |-> TRUE], <<>>)
             ELSE IF "citation" \notin DOMAIN entry
             THEN SpRes("error", "KeyError", "-", ix.val, "remote", exist, NoXYZ, <<>>)
             ELSE IF script = <<"ok", "ok", "ok">>
             THEN SpRes("ok", "-", "-", ix.val, "remote", exist,
                        [X |-> entry.X, Y |-> entry.Y, Z |-> entry.Z,
                         tagY |-> TRUE, tagZ |-> TRUE], script)
             ELSE SpRes("error", "HTTPError", "-", ix.val, "remote", exist, NoXYZ, script)

(* The files load_species leaves in the species directory: it writes none. *)
LoadSpeciesFiles(ix, sp, use_local, fl, script) == fl

(* download_data(species, output_dir), after its load_index() has ended as *)
(* ix: each body is written as soon as its GET has succeeded.              *)
DownloadDataFiles(ix, sp, fl, script) ==
    IF ix.kind # "ok" THEN fl
    ELSE IF sp \notin DOMAIN IndexOf(ix.val) THEN fl
    ELSE LET entry == IndexOf(ix.val)[sp]
             n == Len(SelectSeq(script, LAMBDA o : o = "ok"))
         IN  [f \in DataNames |->
                 IF f = "X" /\ n >= 1 THEN entry.X
                 ELSE IF f = "Y" /\ n >= 2 THEN entry.Y
                 ELSE IF f = "Z" /\ n >= 3 THEN entry.Z
                 ELSE fl[f]]

DownloadData(ix, sp, fl, script) ==
    IF ix.kind # "ok"
    THEN SpRes("error", ix.err, "-", "-", "-", FALSE, NoXYZ, <<>>)
    ELSE IF sp \notin DOMAIN IndexOf(ix.val)
    THEN SpRes("error", "ValueError", "Species '{species}' not found in index.", ix.val, "-",
               FALSE, NoXYZ, <<>>)
    ELSE IF script = <<"ok", "ok", "ok">>
    THEN SpRes("ok", "-", "-", ix.val, "remote", FALSE, NoXYZ, script)
    ELSE SpRes("error", "HTTPError", "-", ix.val, "remote", FALSE, NoXYZ, script)

-----------------------------------------------------------------------------
(* The calls.                                                              *)

LoadIndexCall ==
    \E use_cache \in BOOLEAN, force \in BOOLEAN, fb \in BOOLEAN, lp \in BOOLEAN :
      \E r1 \in FirstGet(cache, use_cache, force) :
      \E r2 \in SecondGet(cache, use_cache, force) :
      \E reqExc \in JsonErrors(r1, r2) :
        LET res == LoadIndex(cache, repoIndex, homeIndex, userIndex,
                             use_cache, force, fb, lp, r1, r2, reqExc)
        IN  /\ cache' = res.cache
            /\ last' = [NoCall EXCEPT !.op = "load_index", !.use_cache = use_cache,
                            !.force = force, !.fb = fb, !.lp = lp,
                            !.cacheBefore = cache, !.kind = res.kind, !.val = res.val,
                            !.src = res.src, !.err = res.err, !.net = res.net]
            /\ prev' = Summary(last)
            /\ UNCHANGED <<repoIndex, homeIndex, userIndex, dataFiles, accVars, benchVars>>

DownloadIndexCall ==
    \E force \in BOOLEAN :
      \E r \in FirstGet(cache, TRUE, force) :
      \E reqExc \in JsonErrors(r, r) :
        LET d == DownloadIndex(cache, force, r, reqExc)
        IN  /\ cache' = d.cache
            /\ last' = [NoCall EXCEPT !.op = "download_index", !.force = force,
                            !.cacheBefore = cache,
                            !.kind = IF d.ret = "path" THEN "ok" ELSE "error",
                            !.err = d.err, !.net = d.net]
            /\ prev' = Summary(last)
            /\ UNCHANGED <<repoIndex, homeIndex, userIndex, dataFiles, accVars, benchVars>>

LoadSpeciesCall ==
    \E sp \in Names, use_local \in BOOLEAN, dir \in Dirs :
      \E r1 \in FirstGet(cache, TRUE, FALSE) :
      \E reqExc \in JsonErrors(r1, r1) :
        LET ix == LoadIndex(cache, repoIndex, homeIndex, userIndex,
                            TRUE, FALSE, TRUE, FALSE, r1, "fail", reqExc)
            fl == LocalFiles(dataFiles, dir, sp)
        IN
      \E script \in LoadScripts(ix, sp, use_local, fl) :
        LET res == LoadSpecies(ix, sp, use_local, fl, script)
            after == LoadSpeciesFiles(ix, sp, use_local, fl, script)
        IN  /\ cache' = ix.cache
            /\ dataFiles' = IF sp = lentil THEN [dataFiles EXCEPT ![dir] = after]
                             ELSE dataFiles
            /\ last' = [NoCall EXCEPT !.op = "load_species", !.species = sp,
                            !.use_local = use_local, !.dir = dir,
                            !.cacheBefore = cache, !.localExist = AllExist(fl),
                            !.kind = res.kind, !.err = res.err, !.msg = res.msg,
                            !.listed = res.listed, !.index = res.index,
                            !.resolved = IF Known(ix, sp) THEN sp ELSE NoName,
                            !.path = res.path, !.xyz = res.xyz,
                            !.net = ix.net, !.dnet = res.dnet]
            /\ prev' = Summary(last)
            /\ UNCHANGED <<repoIndex, homeIndex, userIndex, accVars, benchVars>>

DownloadDataCall ==
    \E sp \in DownloadNames, dir \in Dirs :
      \E r1 \in FirstGet(cache, TRUE, FALSE) :
      \E reqExc \in JsonErrors(r1, r1) :
        LET ix == LoadIndex(cache, repoIndex, homeIndex, userIndex,
                            TRUE, FALSE, TRUE, FALSE, r1, "fail", reqExc)
            fl == LocalFiles(dataFiles, dir, sp)
        IN
      \E script \in DownloadScripts(ix, sp) :
        LET res == DownloadData(ix, sp, fl, script)
            after == DownloadDataFiles(ix, sp, fl, script)
        IN  /\ cache' = ix.cache
            /\ dataFiles' = IF sp = lentil THEN [dataFiles EXCEPT ![dir] = after]
                             ELSE dataFiles
            /\ last' = [NoCall EXCEPT !.op = "download_data", !.species = sp,
                            !.dir = dir, !.cacheBefore = cache,
                            !.kind = res.kind, !.err = res.err, !.msg = res.msg,
                            !.listed = res.listed, !.index = res.index,
                            !.resolved = IF Known(ix, sp) THEN sp ELSE NoName,
                            !.path = res.path,
                            !.net = ix.net, !.dnet = res.dnet]
            /\ prev' = Summary(last)
            /\ UNCHANGED <<repoIndex, homeIndex, userIndex, accVars, benchVars>>

-----------------------------------------------------------------------------
(* The trait accessors.  An object is a dict (keys in insertion order,     *)
(* tagval the value stored under the tag key when it has one), a DataFrame *)
(* (keys are its columns, attrs its attrs["_is_easygese_Y"]) or anything   *)
(* else.                                                                   *)

TagKey == <<"_","i","s","_","e","a","s","y","g","e","s","e","_","Z">>
yld    == <<"y","l","d">>
gy     == <<"_","g","y">>
dtf    == <<"d","t","f">>

DictKeys == {TagKey, yld, gy, dtf}
Columns  == {yld, dtf}

(* the largest number of keys, or columns, of an object *)
MaxKeys == 3

(* the sequences without repetition of at most MaxKeys elements of S *)
KeySeqs(S) ==
    UNION {{q \in [1..n -> S] : \A i, j \in 1..n : q[i] = q[j] => i = j} : n \in 0..MaxKeys}

HasKey(keys, k) == \E i \in 1..Len(keys) : keys[i] = k

Objects ==
    {[type |-> "dict", keys |-> q, tagval |-> v, attrs |-> FALSE] :
        q \in KeySeqs(DictKeys), v \in {"True", "False"}}
    \cup {[type |-> "DataFrame", keys |-> q, tagval |-> "False", attrs |-> a] :
        q \in KeySeqs(Columns), a \in BOOLEAN}
    \cup {[type |-> "other", keys |-> <<>>, tagval |-> "False", attrs |-> FALSE]}

NoObj == [type |-> "other", keys |-> <<>>, tagval |-> "False", attrs |-> FALSE]
NoAcc == [op |-> "-", kind |-> "-", val |-> <<>>, err |-> "-"]

(* k.startswith(p) *)
StartsWith(k, p) == Len(k) >= Len(p) /\ SubSeq(k, 1, Len(p)) = p

(* obj.get("_is_easygese_Z", False) is true *)
TaggedZ(obj) == obj.type = "dict" /\ HasKey(obj.keys, TagKey) /\ obj.tagval = "True"

(* obj.attrs.get("_is_easygese_Y", False) is true *)
TaggedY(obj) == obj.type = "DataFrame" /\ obj.attrs

(* list_traits(obj) *)
ListTraits(obj) ==
    IF TaggedZ(obj)
    THEN [op |-> "list_traits", kind |-> "ok", err |-> "-",
          val |-> SelectSeq(obj.keys, LAMBDA k : ~StartsWith(k, <<"_">>))]
    ELSE IF TaggedY(obj)
    THEN [op |-> "list_traits", kind |-> "ok", err |-> "-", val |-> obj.keys]
    ELSE [op |-> "list_traits", kind |-> "error", err |-> "TypeError", val |-> <<>>]

ListTraitsCall ==
    /\ acc' = ListTraits(zobj)
    /\ UNCHANGED <<zobj, loaderVars, benchVars>>

(* The trait names get_cv_indices is called with: the keys, and a name no  *)
(* object has.                                                             *)
dth == <<"d","t","h">>
TraitArgs == DictKeys \cup {dth}

(* get_cv_indices(z, trait).  `trait not in z` raises a TypeError on an    *)
(* object that is no container; on a dict or a DataFrame a missing trait   *)
(* raises the ValueError whose message joins z.keys(), every key or column *)
(* (listed).  DataFrame.from_dict(z[trait], orient='index') builds the     *)
(* table from the mapping stored under a trait key; under the tag key it   *)
(* finds a bool and under a column a Series, and raises a TypeError.       *)
GetCvIndices(obj, trait) ==
    IF obj.type = "other"
    THEN [op |-> "get_cv_indices", trait |-> trait, kind |-> "error",
          err |-> "TypeError", val |-> <<>>, listed |-> <<>>]
    ELSE IF ~HasKey(obj.keys, trait)
    THEN [op |-> "get_cv_indices", trait |-> trait, kind |-> "error",
          err |-> "ValueError", val |-> <<>>, listed |-> obj.keys]
    ELSE IF obj.type = "DataFrame" \/ trait = TagKey
    THEN [op |-> "get_cv_indices", trait |-> trait, kind |-> "error",
          err |-> "TypeError", val |-> <<>>, listed |-> <<>>]
    ELSE [op |-> "get_cv_indices", trait |-> trait, kind |-> "ok",
          err |-> "-", val |-> <<trait>>, listed |-> <<>>]

GetCvIndicesCall ==
    \E trait \in TraitArgs :
        /\ acc' = GetCvIndices(zobj, trait)
        /\ UNCHANGED <<zobj, loaderVars, benchVars>>

-----------------------------------------------------------------------------
(* The benchmark loader.  A results file is modelled by the name of the    *)
(* table it holds; Doc gives the table: col is the header of its species   *)
(* column, split says whether it has a CV_split column, rows are its rows  *)
(* in file order (sorted by species, trait, model, as groupby returns      *)
(* them).                                                                  *)

RawName == "results_raw.csv"
SummaryName == "results_summary.csv"
BenchNames == {RawName, SummaryName}

CsvIds == {"lower", "Upper", "split"}

Row(sp, tr, mo, cv) == [species |-> sp, trait |-> tr, model |-> mo, split |-> cv]

Doc(id) ==
    IF id = "split"
    THEN [col |-> "species", split |-> TRUE,
          rows |-> <<Row("bean", "yld", "GBLUP", "1"), Row("bean", "yld", "GBLUP", "2"),
                     Row("maize", "yld", "BayesA", "1")>>]
    ELSE [col |-> IF id = "Upper" THEN "Species" ELSE "species", split |-> FALSE,
          rows |-> <<Row("bean", "dtf", "GBLUP", "-"), Row("bean", "yld", "GBLUP", "-"),
                     Row("maize", "yld", "BayesA", "-")>>]

(* what a GET of a benchmark file answers: a failure or a table *)
RemoteCsv(name) ==
    {"fail"} \cup (IF name = RawName THEN {"split"} ELSE {"lower", "Upper"})

NoBenchFiles == [f \in BenchNames |-> "absent"]
NoBench == [d \in Dirs |-> NoBenchFiles]

NoBenchCall ==
    [op |-> "-", dir |-> "-", force |-> FALSE, got |-> [f \in BenchNames |-> "-"],
     kind |-> "-", err |-> "-", ret |-> "-",
     species |-> "none", traits |-> "none", models |-> "none", summarize |-> FALSE,
     path |-> "-", doc |-> "-", rows |-> <<>>]

(* One turn of the loop of download_benchmark_data over a file of content  *)
(* f: got is "-" when no GET is made, else the outcome of the GET.  A      *)
(* RequestException is caught and leaves the file as it was.               *)
BenchFetch(f, force, r) ==
    IF f # "absent" /\ ~force THEN [file |-> f, got |-> "-"]
    ELSE IF r = "fail" THEN [file |-> f, got |-> "fail"]
    ELSE [file |-> r, got |-> r]

(* a loop in which a failed GET of the first file ends the call *)
DownloadBenchmarkDataAbort(files, force, rr, rs) ==
    LET a == BenchFetch(files[RawName], force, rr)
        b == BenchFetch(files[SummaryName], force, rs)
    IN  IF a.got = "fail"
        THEN [files |-> files, got |-> [f \in BenchNames |-> IF f = RawName THEN "fail" ELSE "-"],
              kind |-> "error", err |-> "RequestException"]
        ELSE [files |-> [f \in BenchNames |-> IF f = RawName THEN a.file ELSE b.file],
              got |-> [f \in BenchNames |-> IF f = RawName THEN a.got ELSE b.got],
              kind |-> "ok", err |-> "-"]

(* download_benchmark_data(force, output_dir) on the files of its output   *)
(* directory; rr and rs are the outcomes of the GETs of the two files.     *)
DownloadBenchmarkData(files, force, rr, rs) ==
    LET a == BenchFetch(files[RawName], force, rr)
        b == BenchFetch(files[SummaryName], force, rs)
    IN  [files |-> [f \in BenchNames |-> IF f = RawName THEN a.file ELSE b.file],
         got |-> [f \in BenchNames |-> IF f = RawName THEN a.got ELSE b.got],
         kind |-> "ok", err |-> "-"]

(* the outcomes a GET of file f can have; one outcome when no GET is made *)
BenchGets(files, force, name) ==
    IF files[name] # "absent" /\ ~force THEN {"fail"} ELSE RemoteCsv(name)

DownloadBenchmarkDataCall ==
    \E force \in BOOLEAN, dir \in Dirs :
      \E rr \in BenchGets(benchFiles[dir], force, RawName) :
      \E rs \in BenchGets(benchFiles[dir], force, SummaryName) :
        LET d == DownloadBenchmarkData(benchFiles[dir], force, rr, rs)
        IN  /\ benchFiles' = [benchFiles EXCEPT ![dir] = d.files]
            /\ bench' = [NoBenchCall EXCEPT !.op = "download_benchmark_data",
                             !.dir = dir, !.force = force, !.got = d.got,
                             !.kind = d.kind, !.err = d.err,
                             !.ret = IF d.kind = "ok" THEN dir ELSE "-"]
            /\ UNCHANGED <<pkgFiles, loaderVars, accVars>>

(* df.groupby(['species', 'trait', 'model']).agg(...).reset_index(): one   *)
(* row for each group, in key order.                                       *)
RECURSIVE Groups(_)
Groups(rows) ==
    IF rows = <<>> THEN <<>>
    ELSE LET h == [Head(rows) EXCEPT !.split = "mean"]
             t == Groups(Tail(rows))
         IN  IF \E i \in 1..Len(t) : t[i] = h THEN t ELSE <<h>> \o t

(* df[df[col].isin([v])], skipped when the filter is not given *)
Filter(rows, v, col) ==
    IF v = "none" THEN rows ELSE SelectSeq(rows, LAMBDA r : r[col] = v)

(* Lines 482-532 on the table of the file read: df['species'] raises a     *)
(* KeyError when no column has exactly that name.                          *)
BenchRows(id, species, traits, models, summarize) ==
    LET doc == Doc(id)
        kept == Filter(Filter(Filter(doc.rows, species, "species"), traits, "trait"),
                       models, "model")
    IN  IF doc.col # "species" /\ (species # "none" \/ (summarize /\ doc.split))
        THEN [kind |-> "error", err |-> "KeyError", rows |-> <<>>]
        ELSE [kind |-> "ok", err |-> "-",
              rows |-> IF summarize /\ doc.split THEN Groups(kept) ELSE kept]

(* The file load_benchmark_results reads (lines 444-474): file_path names  *)
(* a file of the user directory or is "none"; the cached file of the       *)
(* default directory, after the download when one is made, else the file   *)
(* of the package.  files is the default directory after the call.         *)
BenchPath(bf, pkg, file_path, summarize, use_cache, force_download, rr, rs) ==
    LET filename == IF summarize THEN SummaryName ELSE RawName
        def == bf["default"]
        d == IF force_download \/ def[filename] = "absent"
             THEN DownloadBenchmarkData(def, force_download, rr, rs)
             ELSE [files |-> def, got |-> [f \in BenchNames |-> "-"],
                   kind |-> "ok", err |-> "-"]
    IN  IF file_path # "none"
        THEN [path |-> "file", doc |-> bf["user"][file_path], files |-> def,
              got |-> [f \in BenchNames |-> "-"]]
        ELSE IF ~use_cache
        THEN [path |-> "package", doc |-> pkg[filename], files |-> def,
              got |-> [f \in BenchNames |-> "-"]]
        ELSE IF d.files[filename] # "absent"
        THEN [path |-> "cache", doc |-> d.files[filename], files |-> d.files, got |-> d.got]
        ELSE [path |-> "package", doc |-> pkg[filename], files |-> d.files, got |-> d.got]

(* load_benchmark_results(file_path, species, traits, models, summarize,   *)
(* use_cache=..., force_download=...)                                      *)
LoadBenchmarkResults(bf, pkg, file_path, species, traits, models, summarize, use_cache, force_download, rr, rs) ==
    LET p == BenchPath(bf, pkg, file_path, summarize, use_cache, force_download, rr, rs)
        t == BenchRows(p.doc, species, traits, models, summarize)
    IN  IF p.doc = "absent"
        THEN [path |-> p.path, doc |-> p.doc, files |-> p.files, got |-> p.got,
              kind |-> "error", err |-> "FileNotFoundError", rows |-> <<>>]
        ELSE [path |-> p.path, doc |-> p.doc, files |-> p.files, got |-> p.got,
              kind |-> t.kind, err |-> t.err, rows |-> t.rows]

(* The arguments a call reads: use_cache and force_download only without   *)
(* a file_path, force_download only with use_cache.                        *)
BenchModes ==
    {<<"none", TRUE, TRUE>>, <<"none", TRUE, FALSE>>, <<"none", FALSE, FALSE>>}
    \cup {<<f, TRUE, FALSE>> : f \in BenchNames}

(* the outcomes of the GETs of the call; one outcome when it makes none *)
LoadGets(bf, mode, summarize, name) ==
    IF mode[1] = "none" /\ mode[2]
       /\ (mode[3] \/ bf["default"][IF summarize THEN SummaryName ELSE RawName] = "absent")
    THEN BenchGets(bf["default"], mode[3], name)
    ELSE {"fail"}

LoadBenchmarkResultsCall ==
    \E mode \in BenchModes, summarize \in BOOLEAN,
       species \in {"none", "bean"}, traits \in {"none", "yld"},
       models \in {"none", "GBLUP"} :
      \E rr \in LoadGets(benchFiles, mode, summarize, RawName) :
      \E rs \in LoadGets(benchFiles, mode, summarize, SummaryName) :
        LET res == LoadBenchmarkResults(benchFiles, pkgFiles, mode[1], species, traits,
                                        models, summarize, mode[2], mode[3], rr, rs)
        IN  /\ benchFiles' = [benchFiles EXCEPT !["default"] = res.files]
            /\ bench' = [NoBenchCall EXCEPT !.op = "load_benchmark_results",
                             !.dir = "default", !.force = mode[3], !.got = res.got,
                             !.kind = res.kind, !.err = res.err,
                             !.species = species, !.traits = traits, !.models = models,
                             !.summarize = summarize, !.path = res.path,
                             !.doc = res.doc, !.rows = res.rows]
            /\ UNCHANGED <<pkgFiles, loaderVars, accVars>>

-----------------------------------------------------------------------------
(* The index loader: every state of the cache file and of the local        *)
(* fallback files, and the calls of load_index and download_index.         *)

NoData == [d \in Dirs |-> NoFiles]

Init ==
    /\ cache \in FileStates
    /\ repoIndex \in {"absent", "corrupt", "IdxB"}
    /\ homeIndex \in {"absent", "IdxA"}
    /\ userIndex \in {"absent", "IdxA"}
    /\ dataFiles = NoData
    /\ last = NoCall
    /\ prev = NoPrev
    /\ zobj = NoObj
    /\ acc = NoAcc
    /\ benchFiles = NoBench
    /\ pkgFiles = NoBenchFiles
    /\ bench = NoBenchCall

Next ==
    \/ LoadIndexCall
    \/ DownloadIndexCall

Spec == Init /\ [][Next]_vars

(* The dataset loader: every state of the cache file, a fresh data         *)
(* directory, and the calls of load_species and download_data.             *)

DataInit ==
    /\ cache \in FileStates
    /\ repoIndex \in {"absent", "IdxB"}
    /\ homeIndex = "absent"
    /\ userIndex = "absent"
    /\ dataFiles = NoData
    /\ last = NoCall
    /\ prev = NoPrev
    /\ zobj = NoObj
    /\ acc = NoAcc
    /\ benchFiles = NoBench
    /\ pkgFiles = NoBenchFiles
    /\ bench = NoBenchCall

DataNext ==
    \/ LoadSpeciesCall
    \/ DownloadDataCall

DataSpec == DataInit /\ [][DataNext]_vars

(* The accessors: an object drawn from Objects, and the accessor calls.    *)

AccInit ==
    /\ cache = "absent"
    /\ repoIndex = "absent"
    /\ homeIndex = "absent"
    /\ userIndex = "absent"
    /\ dataFiles = NoData
    /\ last = NoCall
    /\ prev = NoPrev
    /\ zobj \in Objects
    /\ acc = NoAcc
    /\ benchFiles = NoBench
    /\ pkgFiles = NoBenchFiles
    /\ bench = NoBenchCall

AccNext ==
    \/ ListTraitsCall
    \/ GetCvIndicesCall

AccSpec == AccInit /\ [][AccNext]_vars

(* The benchmark loader: empty benchmark directories, the package as      *)
(* setup.py installs it (no data directory), and the calls of              *)
(* download_benchmark_data and load_benchmark_results.                     *)

BenchInit ==
    /\ cache = "absent"
    /\ repoIndex = "absent"
    /\ homeIndex = "absent"
    /\ userIndex = "absent"
    /\ dataFiles = NoData
    /\ last = NoCall
    /\ prev = NoPrev
    /\ zobj = NoObj
    /\ acc = NoAcc
    /\ benchFiles = NoBench
    /\ pkgFiles = NoBenchFiles
    /\ bench = NoBenchCall

BenchNext ==
    \/ DownloadBenchmarkDataCall
    \/ LoadBenchmarkResultsCall

BenchSpec == BenchInit /\ [][BenchNext]_vars

-----------------------------------------------------------------------------
(* Properties of the index loader, checked under Spec.                     *)

(* every GET of the call ended in a transport or status failure *)
NetFailed(call) ==
    /\ call.net # <<>>
    /\ \A i \in 1..Len(call.net) : call.net[i] = "fail"

SameResult(a, b) == a.kind = b.kind /\ a.val = b.val /\ a.err = b.err

C2_CorruptCacheIsMiss ==
    (last.op = "load_index" /\ ~last.force /\ last.cacheBefore = "corrupt") =>
        last.net # <<>>

(* a forced refresh whose GET answered with an index document *)
ForcedOk(call) ==
    /\ call.op = "load_index" /\ call.force
    /\ call.net # <<>> /\ call.net[1] \in IndexIds

(* C3: load_index(force_refresh=True) whose GET succeeds returns the       *)
(* document the remote served, whatever the cache held, and leaves it in   *)
(* the cache file; a load_index() that follows returns that document from  *)
(* the cache.                                                              *)
C3_ForceRefreshReturnsRemote ==
    [][ /\ ForcedOk(last') =>
            /\ last'.kind = "ok" /\ last'.val = last'.net[1]
            /\ cache' = last'.net[1]
        /\ (ForcedOk(last) /\ PlainLoadIndex(last')) =>
            /\ last'.kind = "ok" /\ last'.val = last.net[1]
            /\ last'.net = <<>> ]_vars

(* a forced refresh replaced a different, valid cached index *)
C3_Witness ==
    /\ ForcedOk(last) /\ last.kind = "ok"
    /\ last.cacheBefore \in IndexIds /\ last.cacheBefore # last.val
    /\ cache = last.val

(* the file the fallback reads: local_path if given, else the first        *)
(* existing well-known location                                            *)
Chosen(call) ==
    IF call.lp THEN userIndex
    ELSE IF repoIndex # "absent" THEN repoIndex
    ELSE IF homeIndex # "absent" THEN homeIndex
    ELSE call.cacheBefore

WellKnown(call) == {repoIndex, homeIndex, call.cacheBefore}

-----------------------------------------------------------------------------
(* Properties of the dataset loader, checked under DataSpec.               *)

(* str.upper() and str.lower() on the letters of the species names *)
UpperChar(ch) ==
    CASE ch = "l" -> "L" [] ch = "e" -> "E" [] ch = "n" -> "N" [] ch = "t" -> "T"
      [] ch = "i" -> "I" [] ch = "s" -> "S" [] ch = "b" -> "B" [] ch = "a" -> "A"
      [] ch = "p" -> "P" [] ch = "o" -> "O" [] OTHER -> ch

LowerChar(ch) ==
    CASE ch = "L" -> "l" [] ch = "E" -> "e" [] ch = "N" -> "n" [] ch = "T" -> "t"
      [] ch = "I" -> "i" [] ch = "S" -> "s" [] ch = "B" -> "b" [] ch = "A" -> "a"
      [] ch = "P" -> "p" [] ch = "O" -> "o" [] OTHER -> ch

Upper(s) == [i \in 1..Len(s) |-> UpperChar(s[i])]
Lower(s) == [i \in 1..Len(s) |-> LowerChar(s[i])]

(* the alias map of the tests, MOCK_SPECIES_ALIASES_DATA, for these species *)
Aliases ==
    (lentil :> lentil) @@ (lentils :> lentil) @@ (bean :> bean)

(* the canonical names the claims resolve a name to *)
Resolves(name, idx) ==
    {c \in DOMAIN IndexOf(idx) :
        \/ name = c \/ name = Upper(c)
        \/ Lower(name) \in DOMAIN Aliases /\ Aliases[Lower(name)] = c}

(* a load_species whose load_index() returned an index *)
Loaded(call) == call.op = "load_species" /\ call.index # "-"

(* C5, as stated: load_species resolves its name case-insensitively: a     *)
(* canonical name, its upper-case form, an alias key and its upper-case    *)
(* form all select the entry of the canonical name.                        *)
C5_CaseInsensitiveResolution ==
    Loaded(last) =>
        \A c \in Resolves(last.species, last.index) : last.resolved = c

(* C6, as stated: load_species with a name that is neither a canonical     *)
(* name nor an alias raises an error whose message is "Invalid species     *)
(* name: '<name>'. Available options are: ..." and lists every canonical   *)
(* name of the index, and makes no GET of a data URL.                      *)
C6_UnknownSpeciesListsNames ==
    (Loaded(last) /\ Resolves(last.species, last.index) = {}) =>
        /\ last.kind = "error"
        /\ last.msg = "Invalid species name: '{species}'. Available options are: {names}"
        /\ last.listed = DOMAIN IndexOf(last.index)
        /\ last.dnet = <<>>

(* the three files of the species were in the target directory and         *)
(* use_local was on                                                        *)
LocalCase(call) == call.op = "load_species" /\ call.use_local /\ call.localExist

(* C7, as stated: when the three data files exist locally load_species     *)
(* returns them and makes no GET at all, whatever the state of the index   *)
(* cache.                                                                  *)
C7_LocalFilesNoNetwork ==
    LocalCase(last) =>
        /\ last.net = <<>> /\ last.dnet = <<>>
        /\ last.kind = "ok" /\ last.path = "local"

(* C7, amended: when the three data files exist locally load_species makes *)
(* no GET of a data URL; it makes no GET at all when the index cache file  *)
(* exists, and exactly one GET, of the index, when it does not; whenever   *)
(* its load_index() returns an index that lists the species it returns the *)
(* content of the local files.                                             *)
C7_LocalFilesNoDataFetch ==
    LocalCase(last) =>
        /\ last.dnet = <<>>
        /\ Len(last.net) = IF last.cacheBefore = "absent" THEN 1 ELSE 0
        /\ (last.resolved # NoName) =>
              /\ last.kind = "ok" /\ last.path = "local"
              /\ \A f \in DataNames : last.xyz[f] = dataFiles[last.dir][f]

(* local files returned by a call that had to fetch the index *)
C7_Witness ==
    /\ LocalCase(last) /\ last.cacheBefore = "absent"
    /\ last.kind = "ok" /\ last.path = "local" /\ Len(last.net) = 1

(* C8, as stated: for an entry with X, Y and Z but no citation,            *)
(* load_species succeeds on the local and on the remote path: it fails     *)
(* only when a GET of a data URL fails.                                    *)
C8_CitationOptional ==
    ( /\ Loaded(last) /\ last.resolved # NoName
      /\ "citation" \notin DOMAIN IndexOf(last.index)[last.resolved] ) =>
        \/ last.kind = "ok"
        \/ last.dnet # <<>> /\ last.dnet[Len(last.dnet)] = "fail"

(* C9: a load_species that does not find the three local files reads X, Y  *)
(* and Z from the URLs of the index entry and leaves the files of the      *)
(* species directory as they were, whether it returns or raises.           *)
C9_RemoteReadPersistsNothing ==
    [][ (last'.op = "load_species" /\ ~last'.localExist) =>
            /\ dataFiles' = dataFiles
            /\ (last'.kind = "ok") =>
                  /\ last'.path = "remote" /\ last'.dnet = <<"ok", "ok", "ok">>
                  /\ \A f \in DataNames :
                        last'.xyz[f] = IndexOf(last'.index)[last'.resolved][f] ]_vars

(* lentil read from the remote while its directory held no file *)
C9_Witness ==
    /\ last.op = "load_species" /\ last.species = lentil /\ ~last.localExist
    /\ last.kind = "ok" /\ last.path = "remote"
    /\ dataFiles[last.dir] = NoFiles

-----------------------------------------------------------------------------
(* Properties of the accessors, checked under AccSpec.                     *)

(* C10, as stated: list_traits on a tagged Z mapping returns every key but *)
(* the tag key, each once and in insertion order, whatever character the   *)
(* key starts with.                                                        *)
C10_ListTraitsAllButTag ==
    (acc.op = "list_traits" /\ TaggedZ(zobj)) =>
        /\ acc.kind = "ok"
        /\ acc.val = SelectSeq(zobj.keys, LAMBDA k : k # TagKey)

(* C11, as stated: get_cv_indices(z, trait) returns a table only when z is *)
(* a tagged Z mapping and trait is one of its keys other than the tag key; *)
(* it raises the invalid-argument error (the TypeError of list_traits)     *)
(* when z is not a tagged Z mapping, and the unknown-trait error (the      *)
(* ValueError), whose message lists the traits of z, when trait is missing *)
(* from z or is the tag key.                                               *)
C11_CvIndicesValidates ==
    (acc.op = "get_cv_indices") =>
        IF ~TaggedZ(zobj)
        THEN acc.kind = "error" /\ acc.err = "TypeError"
        ELSE IF HasKey(zobj.keys, acc.trait) /\ acc.trait # TagKey
        THEN acc.kind = "ok"
        ELSE /\ acc.kind = "error" /\ acc.err = "ValueError"
             /\ acc.listed = SelectSeq(zobj.keys, LAMBDA k : k # TagKey)

(* C14, as stated: one load_index call makes at most one GET of the index, *)
(* whatever use_cache, force_refresh, local_fallback and the cache file    *)
(* are; after a failed GET it goes to the fallback or the error.           *)
C14_AtMostOneFetch ==
    (last.op = "load_index") => Len(last.net) <= 1

(* C15, as stated: a step of download_index or load_index that starts with *)
(* a parsable cache file either leaves the file as it was or replaces it   *)
(* with an index document one of its GETs returned; so a cache file that   *)
(* held a parsable index holds one ever after.                             *)
C15_ValidCacheSurvives ==
    [][Parsable(cache) =>
          \/ cache' = cache
          \/ /\ Parsable(cache')
             /\ \E i \in 1..Len(last'.net) : last'.net[i] = cache']_vars

(* C16, as stated: every load_index call ends with an index document       *)
(* returned or an exception raised; it never returns None.                 *)
C16_NeverReturnsNone ==
    (last.op = "load_index") => last.kind \in {"ok", "error"}

(* C12: a call of download_benchmark_data treats its two files one by one: *)
(* it makes a GET of a file exactly when the file is missing from the      *)
(* output directory or force is set; a file it makes no GET of keeps its   *)
(* content; a file whose GET succeeds holds the answer; a failed GET of    *)
(* one file neither stops the GET of the other nor makes the call fail;    *)
(* the call returns its output directory, and when both GETs succeed both  *)
(* files exist there.                                                      *)
C12_BenchmarkFilesIndependent ==
    [][(bench'.op = "download_benchmark_data") =>
          LET dir == bench'.dir
          IN  /\ bench'.kind = "ok"
              /\ bench'.ret = dir
              /\ \A f \in BenchNames :
                    /\ (bench'.got[f] # "-") <=>
                           (benchFiles[dir][f] = "absent" \/ bench'.force)
                    /\ (bench'.got[f] \in {"-", "fail"}) =>
                           benchFiles'[dir][f] = benchFiles[dir][f]
                    /\ (bench'.got[f] \in CsvIds) => benchFiles'[dir][f] = bench'.got[f]
              /\ (\A f \in BenchNames : bench'.got[f] \in CsvIds) =>
                     \A f \in BenchNames : benchFiles'[dir][f] # "absent"
              /\ \A d \in Dirs \ {dir} : benchFiles'[d] = benchFiles[d]]_vars

(* C12 witness: a call into the user directory whose GET of the raw file   *)
(* failed and whose GET of the summary file succeeded and was stored.      *)
C12_Witness ==
    /\ bench.op = "download_benchmark_data"
    /\ bench.dir = "user"
    /\ bench.kind = "ok"
    /\ bench.got[RawName] = "fail"
    /\ bench.got[SummaryName] \in CsvIds
    /\ benchFiles["user"][SummaryName] = bench.got[SummaryName]
    /\ benchFiles["user"][RawName] = "absent"

(* C13, as stated: load_benchmark_results(species=s), with no other filter *)
(* and on a table without CV splits, returns exactly the rows of the table *)
(* whose species is s, whether the header of the file read spells the      *)
(* column "species" or "Species"; it fails on neither.                     *)
C13_SpeciesFilterAnyHeader ==
    (/\ bench.op = "load_benchmark_results"
     /\ bench.species # "none" /\ bench.traits = "none" /\ bench.models = "none"
     /\ bench.doc \in CsvIds /\ ~Doc(bench.doc).split) =>
        /\ bench.kind = "ok"
        /\ bench.rows = SelectSeq(Doc(bench.doc).rows,
                                  LAMBDA r : r.species = bench.species)

====
